---- MODULE Spec2Model ----
(***************************************************************************)
(* Model of pilot/helpers/cli.py: the supervised shell-command executor.   *)
(*                                                                         *)
(*   enqueue_output     one drainer thread per output stream               *)
(*   run_command        spawn of the shell and start of the two drainers   *)
(*   terminate_process  forceful kill of the process group / process tree  *)
(*   execute_command    timeout clamp, polling loop, abort handler, result *)
(*                                                                         *)
(* Texts are sequences of one-character strings; a line is a text ending   *)
(* in "\n".  Times are milliseconds.                                       *)
(***************************************************************************)
EXTENDS Integers, Sequences, FiniteSets, TLC

VARIABLES
    platform,          \* platform.system(): "Posix" or "Windows"
    timeoutArg,        \* the timeout argument of execute_command (or NoTimeout)
    timeout,           \* the local timeout after lines 96-99
    cap,               \* MAX_COMMAND_OUTPUT_LENGTH in effect
    work,              \* what the command does: [out, err, child, lifetime]
    pc,                \* position of execute_command
    outcome,           \* state of the Execution Controller
    exc,               \* exception in flight / escaped ("none" when none)
    elapsed,           \* wall-clock ms since start_time
    iterated,          \* the loop has run an iteration since the last clock tick
    shell,             \* the spawned shell process (the group leader)
    child,             \* a background child of the shell, same group, same pipes
    outIdx, errIdx,    \* lines of work.out / work.err the shell has written
    pipeOut, pipeErr,  \* OS pipes: lines written and not yet read
    dOut, dErr,        \* the drainer threads: "none", "running", "closed"
    q, q_stderr,       \* the two queue.Queue objects
    output, stderr_output,  \* the accumulators of execute_command
    interrupted,       \* the module-level flag of line 17 (read by the drainers)
    interrupted_local, \* the name "interrupted" assigned inside execute_command
    pid_container,     \* pid_container[0]
    termPids,          \* arguments of the calls of terminate_process, in order
    termRaised,        \* the last call of terminate_process raised
    return_value,      \* the value returned by execute_command
    saved,             \* texts handed to save_command_run, in order
    kbCount,           \* KeyboardInterrupts delivered so far
    force,             \* the force argument of execute_command
    skip_steps,        \* project.skip_steps
    prior,             \* cli_response of the run get_command_run_from_hash_id
                       \* finds for this command (NoValue when it finds none)
    answer,            \* what styled_text returned ("unasked" before the prompt)
    log,               \* the hooks execute_command has called, in order
    dargs,             \* the arguments command, user_input and
                       \* issue_description of debug()
    dpc,               \* position of debug()
    dsuccess,          \* the local success of debug()
    dtries,            \* iterations of the for loop of debug() started so far
    dlog,              \* what debug() has called, in order
    dhuman,            \* what ask_for_human_intervention returned
    dret               \* the value debug() returned

vars == <<platform, timeoutArg, timeout, cap, work, pc, outcome, exc, elapsed,
          iterated, shell, child, outIdx, errIdx, pipeOut, pipeErr, dOut, dErr,
          q, q_stderr, output, stderr_output, interrupted, interrupted_local,
          pid_container, termPids, termRaised, return_value, saved, kbCount,
          force, skip_steps, prior, answer, log,
          dargs, dpc, dsuccess, dtries, dlog, dhuman, dret>>

procVars == <<shell, child, outIdx, errIdx, pipeOut, pipeErr>>
drainVars == <<dOut, dErr, q, q_stderr>>
dbgVars == <<dargs, dpc, dsuccess, dtries, dlog, dhuman, dret>>
\* the arguments of execute_command and the project's settings
callVars == <<platform, timeoutArg, cap, work, force, skip_steps, prior>>
\* what no step of execute_command, of the processes or of the drainers
\* changes: the arguments, the project's settings and the state of debug()
argVars == <<callVars, dbgVars>>
hookVars == <<answer, log>>
ctlVars == <<timeout, pc, outcome, exc, output, stderr_output, interrupted,
             interrupted_local, pid_container, termPids, termRaised,
             return_value, saved, kbCount, hookVars>>
\* everything debug() itself leaves alone
execVars == <<procVars, drainVars, callVars, ctlVars, elapsed, iterated>>

----------------------------------------------------------------------------
(* Program constants and the bounds of the model.  The constants are       *)
(* imported at line 15 from const.code_execution, which lies outside this  *)
(* source tree; they stand here with small values, MIN below MAX and both  *)
(* multiples of the clock tick.                                            *)

MIN_COMMAND_RUN_TIME == 2000
MAX_COMMAND_RUN_TIME == 6000
MAX_COMMAND_OUTPUT_LENGTH == 3
MAX_COMMAND_DEBUG_TRIES == 3

TickMs == 2000          \* granularity of the clock
PipeCap == 1            \* lines an OS pipe holds before the writer blocks
MaxQueue == 2           \* lines held in a queue.Queue (unbounded in the code)
MaxInterrupts == 1      \* KeyboardInterrupts delivered to one invocation
MaxOutput == 4          \* a chatty child stops once output holds this many chars
MaxCap == 3             \* caps tried for the result construction
MaxText == 3            \* length of the texts tried for the result construction
MaxTermCalls == 2       \* direct calls of terminate_process on one pid

NoTimeout == -1          \* timeout=None (line 83)
NoPid == 0               \* pid_container = [None] (line 132)
ShellPid == 1            \* process.pid (line 60)
NoValue == <<"None">>    \* return_value = None (line 128)

MaxElapsed == MAX_COMMAND_RUN_TIME + TickMs

----------------------------------------------------------------------------
(* Texts                                                                   *)

NL == "\n"
LA == <<"a", NL>>
LB == <<"b", NL>>
LBA == <<"b", "a", NL>>
LY == <<"y", NL>>
\* a line of bytes that are not valid in the encoding of the text-mode pipe
LX == <<"x", NL>>

RECURSIVE Flatten(_)
Flatten(ls) == IF ls = <<>> THEN <<>> ELSE Head(ls) \o Flatten(Tail(ls))

\* Python: l in s, for strings
IsSubstring(l, s) ==
    \E i \in 0..(Len(s) - Len(l)) : SubSeq(s, i + 1, i + Len(l)) = l

\* Python: s[-n:] for n >= 0.  -0 is 0, so s[-0:] is s[0:], the whole of s.
PySliceFromMinus(s, n) ==
    IF n = 0 THEN s
    ELSE IF Len(s) <= n THEN s
    ELSE SubSeq(s, Len(s) - n + 1, Len(s))

----------------------------------------------------------------------------
(* execute_command, lines 96-99: the timeout the loop compares against     *)

Min(a, b) == IF a < b THEN a ELSE b
Max(a, b) == IF a > b THEN a ELSE b

ClampTimeout(t) ==
    IF t = NoTimeout THEN NoTimeout
    ELSE LET t1 == IF t < 1000 THEN t * 1000 ELSE t
         IN  Min(Max(t1, MIN_COMMAND_RUN_TIME), MAX_COMMAND_RUN_TIME)

----------------------------------------------------------------------------
(* terminate_process, lines 69-81                                          *)

Kill(p) == IF p = "running" THEN "killed" ELSE p

\* os.kill(pid, SIGKILL) in place of os.killpg: only the group leader is hit
KillLeaderOnly(sh, ch) ==
    IF sh = "running"
    THEN [shell |-> Kill(sh), child |-> ch, error |-> FALSE]
    ELSE [shell |-> sh, child |-> ch, error |-> TRUE]

\* os.killpg(pid, SIGKILL): every live member of the group is killed; a group
\* with no member left makes the call fail with OSError (ESRCH).
KillPg(sh, ch) ==
    IF sh = "running" \/ ch = "running"
    THEN [shell |-> Kill(sh), child |-> Kill(ch), error |-> FALSE]
    ELSE [shell |-> sh, child |-> ch, error |-> TRUE]

\* subprocess.run(["taskkill", "/F", "/T", "/PID", pid]) without check=True:
\* the tree rooted at a live pid is killed; for a pid that is gone taskkill
\* exits non-zero, which subprocess.run reports without raising.
TaskKill(sh, ch) ==
    IF sh = "running"
    THEN [shell |-> Kill(sh), child |-> Kill(ch), error |-> FALSE]
    ELSE [shell |-> sh, child |-> ch, error |-> FALSE]

\* terminate_process with the "except OSError: pass" of lines 79-81 left out
TerminateProcessUncaught(plat, sh, ch) ==
    LET r == IF plat = "Windows" THEN TaskKill(sh, ch) ELSE KillPg(sh, ch)
    IN  [shell |-> r.shell, child |-> r.child, raised |-> r.error]

TerminateProcess(plat, sh, ch) ==
    LET r == IF plat = "Windows" THEN TaskKill(sh, ch) ELSE KillPg(sh, ch)
    IN  [shell |-> r.shell, child |-> r.child, raised |-> FALSE]

----------------------------------------------------------------------------
(* execute_command, lines 194-198: the result text                         *)

FENCE == "[fence]"     \* the three-backtick fence of the result text
StderrOpen == <<"stderr:", NL, FENCE, NL>>
StderrClose == <<NL, FENCE, NL>>
StdoutOpen == <<"stdout:", NL, FENCE, NL>>
StdoutClose == <<NL, FENCE>>

BuildResult(out, err, n) ==
    LET head == IF err # <<>>
                THEN StderrOpen \o PySliceFromMinus(err, n) \o StderrClose
                ELSE <<>>
    IN  head \o StdoutOpen \o PySliceFromMinus(out, n) \o StdoutClose

----------------------------------------------------------------------------
(* Inputs                                                                  *)

TimeoutArgs == {NoTimeout, 0, 500, 3000, 10000}

Work(o, e, c, l) == [out |-> o, err |-> e, child |-> c, lifetime |-> l]

\* child: "none", "quiet" (a background process that writes nothing) or
\* "chatty" (one that keeps writing the line LY to the inherited stdout).
\* lifetime: the shell does not exit before this many ms have elapsed.
Workloads ==
    { Work(<<LA, LB>>, <<LA, LB>>, "none", 0),
      Work(<<LA, LA>>, <<>>, "none", 0),
      Work(<<LBA, LA>>, <<LB>>, "none", 0),
      Work(<<LA>>, <<>>, "quiet", 0),
      Work(<<LA, LX>>, <<>>, "none", 0),
      Work(<<>>, <<>>, "chatty", 0),
      Work(<<LA>>, <<>>, "none", 5000) }

\* debug() is not running
DebugIdle ==
    /\ dargs = [command |-> "None", user_input |-> "None",
                issue_description |-> "None"]
    /\ dpc = "idle"
    /\ dsuccess = FALSE
    /\ dtries = 0
    /\ dlog = <<>>
    /\ dhuman = "none"
    /\ dret = "none"

Fresh ==
    /\ timeout = NoTimeout
    /\ answer = "unasked"
    /\ log = <<>>
    /\ outcome = "NONE"
    /\ exc = "none"
    /\ elapsed = 0
    /\ iterated = FALSE
    /\ shell = "none" /\ child = "none"
    /\ outIdx = 0 /\ errIdx = 0
    /\ pipeOut = <<>> /\ pipeErr = <<>>
    /\ dOut = "none" /\ dErr = "none"
    /\ q = <<>> /\ q_stderr = <<>>
    /\ interrupted = FALSE
    /\ interrupted_local = FALSE
    /\ pid_container = NoPid
    /\ termPids = <<>>
    /\ termRaised = FALSE
    /\ return_value = NoValue
    /\ saved = <<>>
    /\ kbCount = 0

\* a response stored by an earlier run of the same command
OldResponse == StdoutOpen \o <<"o">> \o StdoutClose

\* what the user can type at the prompt "If yes, just press ENTER"
Answers == {"", "no"}

\* Either the command, the platform and the timeout vary and the hooks are out
\* of the way (force, no history), or the hooks vary around one plain command.
Init ==
    /\ \/ /\ platform \in {"Posix", "Windows"}
          /\ timeoutArg \in TimeoutArgs
          /\ work \in Workloads
          /\ force = TRUE
          /\ skip_steps = FALSE
          /\ prior = NoValue
       \/ /\ platform = "Posix"
          /\ timeoutArg = NoTimeout
          /\ work = Work(<<LA>>, <<>>, "none", 0)
          /\ force \in BOOLEAN
          /\ skip_steps \in BOOLEAN
          /\ prior \in {NoValue, OldResponse}
    /\ cap = MAX_COMMAND_OUTPUT_LENGTH
    /\ pc = "start"
    /\ output = <<>> /\ stderr_output = <<>>
    /\ Fresh
    /\ DebugIdle

----------------------------------------------------------------------------
(* The spawned processes and the pipes                                     *)

\* the shell writes its next stdout line; it blocks while the pipe is full
ShellWriteOut ==
    /\ shell = "running"
    /\ outIdx < Len(work.out)
    /\ Len(pipeOut) < PipeCap
    /\ pipeOut' = Append(pipeOut, work.out[outIdx + 1])
    /\ outIdx' = outIdx + 1
    /\ UNCHANGED <<shell, child, errIdx, pipeErr, drainVars, argVars, ctlVars,
                   elapsed, iterated>>

ShellWriteErr ==
    /\ shell = "running"
    /\ errIdx < Len(work.err)
    /\ Len(pipeErr) < PipeCap
    /\ pipeErr' = Append(pipeErr, work.err[errIdx + 1])
    /\ errIdx' = errIdx + 1
    /\ UNCHANGED <<shell, child, outIdx, pipeOut, drainVars, argVars, ctlVars,
                   elapsed, iterated>>

\* the shell exits on its own once it has written everything
ShellExit ==
    /\ shell = "running"
    /\ outIdx = Len(work.out) /\ errIdx = Len(work.err)
    /\ elapsed >= work.lifetime
    /\ shell' = "exited"
    /\ UNCHANGED <<child, outIdx, errIdx, pipeOut, pipeErr, drainVars, argVars,
                   ctlVars, elapsed, iterated>>

ChildWrite ==
    /\ child = "running"
    /\ work.child = "chatty"
    /\ Len(pipeOut) < PipeCap
    /\ Len(output) < MaxOutput
    /\ pipeOut' = Append(pipeOut, LY)
    /\ UNCHANGED <<shell, child, outIdx, errIdx, pipeErr, drainVars, argVars,
                   ctlVars, elapsed, iterated>>

ChildExit ==
    /\ child = "running"
    /\ child' = "exited"
    /\ UNCHANGED <<shell, outIdx, errIdx, pipeOut, pipeErr, drainVars, argVars,
                   ctlVars, elapsed, iterated>>

\* a pipe is at end-of-data when it is empty and no process holds its write end
WritersGone == shell # "running" /\ child # "running"

----------------------------------------------------------------------------
(* enqueue_output, lines 19-24: one iteration of the for loop, or its end  *)

\* Popen(text=True), lines 41-58: readline decodes strictly and raises
\* UnicodeDecodeError on such a line
Undecodable(line) == line = LX

\* the state of a drainer whose readline raised: nothing catches the error in
\* enqueue_output, the thread ends at line 20 and line 24 is not reached
AfterReadError == "crashed"

EnqueueOutput(pipe, d, qu, flag) ==
    IF pipe # <<>>
    THEN IF Undecodable(Head(pipe))
         THEN [pipe |-> pipe, d |-> AfterReadError, q |-> qu]
         ELSE IF flag
         THEN [pipe |-> Tail(pipe), d |-> "closed", q |-> qu]
         ELSE [pipe |-> Tail(pipe), d |-> "running", q |-> Append(qu, Head(pipe))]
    ELSE [pipe |-> pipe, d |-> "closed", q |-> qu]

DrainerOut ==
    /\ dOut = "running"
    /\ \/ pipeOut # <<>> /\ Len(q) < MaxQueue
       \/ pipeOut = <<>> /\ WritersGone
    /\ LET r == EnqueueOutput(pipeOut, dOut, q, interrupted)
       IN  /\ pipeOut' = r.pipe
           /\ dOut' = r.d
           /\ q' = r.q
    /\ UNCHANGED <<shell, child, outIdx, errIdx, pipeErr, dErr, q_stderr,
                   argVars, ctlVars, elapsed, iterated>>

DrainerErr ==
    /\ dErr = "running"
    /\ \/ pipeErr # <<>> /\ Len(q_stderr) < MaxQueue
       \/ pipeErr = <<>> /\ WritersGone
    /\ LET r == EnqueueOutput(pipeErr, dErr, q_stderr, interrupted)
       IN  /\ pipeErr' = r.pipe
           /\ dErr' = r.d
           /\ q_stderr' = r.q
    /\ UNCHANGED <<shell, child, outIdx, errIdx, pipeOut, dOut, q,
                   argVars, ctlVars, elapsed, iterated>>

----------------------------------------------------------------------------
(* execute_command, lines 83-202                                           *)

\* lines 96-101: the clamp, then the prompt unless force is set
Begin ==
    /\ pc = "start"
    /\ timeout' = ClampTimeout(timeoutArg)
    /\ pc' = IF force THEN "lookup" ELSE "prompt"
    /\ UNCHANGED <<procVars, drainVars, argVars, outcome, exc, output,
                   stderr_output, interrupted, interrupted_local, pid_container,
                   termPids, termRaised, return_value, saved, kbCount, elapsed,
                   iterated, hookVars>>

\* lines 102-112: styled_text blocks until the user has typed something; the
\* value it returns is bound to answer and not read again
Confirm ==
    /\ pc = "prompt"
    /\ answer' \in Answers
    /\ log' = Append(log, "prompt")
    /\ pc' = "lookup"
    /\ UNCHANGED <<procVars, drainVars, argVars, timeout, outcome, exc, output,
                   stderr_output, interrupted, interrupted_local, pid_container,
                   termPids, termRaised, return_value, saved, kbCount, elapsed,
                   iterated>>

\* line 122
Replays(pr, skip) == pr # NoValue /\ skip

\* lines 116-126: the history lookup; a stored run is returned at once when
\* project.skip_steps is set
HistoryLookup ==
    /\ pc = "lookup"
    /\ log' = Append(log, "lookup")
    /\ IF Replays(prior, skip_steps)
       THEN return_value' = prior /\ pc' = "done"
       ELSE pc' = "spawn" /\ UNCHANGED return_value
    /\ UNCHANGED <<procVars, drainVars, argVars, timeout, outcome, exc, output,
                   stderr_output, interrupted, interrupted_local, pid_container,
                   termPids, termRaised, saved, kbCount, elapsed, iterated,
                   answer>>

\* run_command, lines 26-67: Popen succeeds, the pid is published, both
\* drainers are started
RunCommand ==
    /\ pc = "spawn"
    /\ shell' = "running"
    /\ child' = IF work.child = "none" THEN "none" ELSE "running"
    /\ pid_container' = ShellPid
    /\ dOut' = "running" /\ dErr' = "running"
    /\ pc' = "spawned"
    /\ log' = Append(log, "spawn")
    /\ UNCHANGED <<outIdx, errIdx, pipeOut, pipeErr, q, q_stderr, argVars,
                   timeout, outcome, exc, output, stderr_output, interrupted,
                   interrupted_local, termPids, termRaised, return_value, saved,
                   kbCount, elapsed, iterated, answer>>

\* the call of line 133 placed inside the try block, under a handler that
\* catches what Popen raises
SpawnFailureHandled == "handler"

\* line 133 stands before the try block of line 139: what run_command raises
\* leaves execute_command
SpawnFailurePc == "raised"

\* run_command: Popen raises (line 41 or 50), before the pid is published and
\* before any drainer is started
RunCommandFails ==
    /\ pc = "spawn"
    /\ pc' = SpawnFailurePc
    /\ exc' = "SpawnFailure"
    /\ log' = Append(log, "spawn_failed")
    /\ UNCHANGED <<procVars, drainVars, argVars, timeout, outcome, output,
                   stderr_output, interrupted, interrupted_local, pid_container,
                   termPids, termRaised, return_value, saved, kbCount, elapsed,
                   iterated, answer>>

\* lines 134-139: the locals of the loop; "interrupted" here is a local name
EnterLoop ==
    /\ pc = "spawned"
    /\ output' = <<>> /\ stderr_output' = <<>>
    /\ elapsed' = 0
    /\ interrupted_local' = FALSE
    /\ outcome' = "RUNNING"
    /\ pc' = "loop"
    /\ UNCHANGED <<procVars, drainVars, argVars, timeout, exc, interrupted,
                   pid_container, termPids, termRaised, return_value, saved,
                   kbCount, iterated, hookVars>>

\* process.poll() is not None
Polled(sh) == sh # "running"

\* line 157
TimedOut(t, e) == t # NoTimeout /\ e > t

\* lines 162-169 and 172-179: get_nowait and the append of a line found
PopAppend(acc, qu) == IF qu = <<>> THEN acc ELSE acc \o Head(qu)

\* a loop "while not q.empty(): q.get_nowait()" in the place of line 163
PopAll(qu) == <<>>

\* get_nowait takes the oldest line, or raises queue.Empty (lines 164, 174)
PopRest(qu) == IF qu = <<>> THEN qu ELSE Tail(qu)

\* lines 150-153: the append of the post-exit drain
DrainAppend(acc, line) == IF IsSubstring(line, acc) THEN acc ELSE acc \o line

\* the loop with the test of line 157 moved above the poll of line 146
LoopIterationTimeoutFirst ==
    /\ pc = "loop"
    /\ iterated' = TRUE
    /\ IF TimedOut(timeout, elapsed)
       THEN /\ pc' = "handler"
            /\ exc' = "TimeoutError"
            /\ outcome' = "TIMED_OUT"
            /\ UNCHANGED <<output, stderr_output, q, q_stderr>>
       ELSE IF Polled(shell)
       THEN /\ pc' = "drain"
            /\ UNCHANGED <<outcome, exc, output, stderr_output, q, q_stderr>>
       ELSE /\ output' = PopAppend(output, q)
            /\ q' = PopRest(q)
            /\ stderr_output' = PopAppend(stderr_output, q_stderr)
            /\ q_stderr' = PopRest(q_stderr)
            /\ UNCHANGED <<pc, outcome, exc>>
    /\ UNCHANGED <<procVars, dOut, dErr, argVars, timeout, interrupted,
                   interrupted_local, pid_container, termPids, termRaised,
                   return_value, saved, kbCount, elapsed, hookVars>>

\* one iteration of the while loop, lines 140-179
LoopIteration ==
    /\ pc = "loop"
    /\ iterated' = TRUE
    /\ IF Polled(shell)
       THEN /\ pc' = "drain"
            /\ UNCHANGED <<outcome, exc, output, stderr_output, q, q_stderr>>
       ELSE IF TimedOut(timeout, elapsed)
       THEN /\ pc' = "handler"
            /\ exc' = "TimeoutError"
            /\ outcome' = "TIMED_OUT"
            /\ UNCHANGED <<output, stderr_output, q, q_stderr>>
       ELSE /\ output' = PopAppend(output, q)
            /\ q' = PopRest(q)
            /\ stderr_output' = PopAppend(stderr_output, q_stderr)
            /\ q_stderr' = PopRest(q_stderr)
            /\ UNCHANGED <<pc, outcome, exc>>
    /\ UNCHANGED <<procVars, dOut, dErr, argVars, timeout, interrupted,
                   interrupted_local, pid_container, termPids, termRaised,
                   return_value, saved, kbCount, elapsed, hookVars>>

\* lines 148-154: after the sleep, one turn of "while not q.empty()", or break
DrainRemaining ==
    /\ pc = "drain"
    /\ IF q = <<>>
       THEN /\ pc' = "build"
            /\ outcome' = "COMPLETED"
            /\ UNCHANGED <<output, q>>
       ELSE /\ output' = DrainAppend(output, Head(q))
            /\ q' = Tail(q)
            /\ UNCHANGED <<pc, outcome>>
    /\ UNCHANGED <<procVars, dOut, dErr, q_stderr, argVars, timeout, exc,
                   stderr_output, interrupted, interrupted_local, pid_container,
                   termPids, termRaised, return_value, saved, kbCount, elapsed,
                   iterated, hookVars>>

\* the wall clock; an iteration of the loop takes far less than one tick
Tick ==
    /\ pc = "loop"
    /\ iterated
    /\ elapsed < MaxElapsed
    /\ elapsed' = elapsed + TickMs
    /\ iterated' = FALSE
    /\ UNCHANGED <<procVars, drainVars, argVars, ctlVars>>

\* the pcs inside the try block of lines 139-179
InTry == {"loop", "drain"}

\* a KeyboardInterrupt is delivered to the main thread: caught by line 181
\* inside the try block, propagating to the caller anywhere else
KeyboardInterrupt ==
    /\ pc \in {"spawned", "loop", "drain", "handler", "build"}
    /\ kbCount < MaxInterrupts
    /\ kbCount' = kbCount + 1
    /\ exc' = "KeyboardInterrupt"
    /\ IF pc \in InTry
       THEN pc' = "handler" /\ outcome' = "INTERRUPTED"
       ELSE pc' = "raised" /\ UNCHANGED outcome
    /\ UNCHANGED <<procVars, drainVars, argVars, timeout, output, stderr_output,
                   interrupted, interrupted_local, pid_container, termPids,
                   termRaised, return_value, saved, elapsed, iterated, hookVars>>

\* lines 181-188: the except clause
AbortHandler ==
    /\ pc = "handler"
    /\ interrupted_local' = TRUE
    /\ LET r == TerminateProcess(platform, shell, child)
       IN  /\ shell' = r.shell
           /\ child' = r.child
           /\ termRaised' = r.raised
           /\ pc' = IF r.raised THEN "raised" ELSE "build"
           /\ exc' = IF r.raised THEN "OSError" ELSE "none"
    /\ termPids' = Append(termPids, pid_container)
    /\ UNCHANGED <<outIdx, errIdx, pipeOut, pipeErr, drainVars, argVars, timeout,
                   outcome, output, stderr_output, interrupted, pid_container,
                   return_value, saved, kbCount, elapsed, iterated, hookVars>>

\* lines 194-202: the result is built, persisted and returned
Finish ==
    /\ pc = "build"
    /\ return_value' = BuildResult(output, stderr_output, cap)
    /\ saved' = Append(saved, return_value')
    /\ pc' = "done"
    /\ log' = Append(log, "save")
    /\ UNCHANGED <<procVars, drainVars, argVars, timeout, outcome, exc, output,
                   stderr_output, interrupted, interrupted_local, pid_container,
                   termPids, termRaised, kbCount, elapsed, iterated, answer>>

Drainers == DrainerOut \/ DrainerErr
Controller ==
    \/ Begin \/ Confirm \/ HistoryLookup \/ RunCommand \/ RunCommandFails \/ EnterLoop \/ LoopIteration
    \/ DrainRemaining \/ AbortHandler \/ Finish

Next ==
    \/ ShellWriteOut \/ ShellWriteErr \/ ShellExit \/ ChildWrite \/ ChildExit
    \/ DrainerOut \/ DrainerErr
    \/ Begin \/ Confirm \/ HistoryLookup \/ RunCommand \/ RunCommandFails \/ EnterLoop \/ LoopIteration
    \/ DrainRemaining \/ AbortHandler \/ Finish
    \/ Tick \/ KeyboardInterrupt

Spec == Init /\ [][Next]_vars

FairSpec ==
    /\ Init /\ [][Next]_vars
    /\ WF_vars(Controller) /\ WF_vars(Tick) /\ WF_vars(Drainers)

----------------------------------------------------------------------------
(* The result construction on its own: lines 194-202 applied to every pair *)
(* of accumulated texts and every cap within the bounds.                   *)

Chars == {"a", "b", NL}

RECURSIVE TextsOfLen(_)
TextsOfLen(n) ==
    IF n = 0 THEN {<<>>}
    ELSE {Append(t, c) : t \in TextsOfLen(n - 1), c \in Chars}

Texts == UNION {TextsOfLen(n) : n \in 0..MaxText}

ResultInit ==
    /\ platform = "Posix"
    /\ timeoutArg = NoTimeout
    /\ work = Work(<<>>, <<>>, "none", 0)
    /\ force = TRUE
    /\ skip_steps = FALSE
    /\ prior = NoValue
    /\ cap \in 0..MaxCap
    /\ output \in Texts
    /\ stderr_output \in Texts
    /\ pc = "build"
    /\ Fresh
    /\ DebugIdle

ResultNext == Finish

ResultSpec == ResultInit /\ [][ResultNext]_vars

----------------------------------------------------------------------------
(* terminate_process called directly, any number of times up to the bound, *)
(* on the pid of a spawned command that runs, exits or is killed meanwhile. *)

TermInit ==
    /\ platform \in {"Posix", "Windows"}
    /\ timeoutArg = NoTimeout
    /\ cap = MAX_COMMAND_OUTPUT_LENGTH
    /\ work \in Workloads
    /\ force = TRUE
    /\ skip_steps = FALSE
    /\ prior = NoValue
    /\ answer = "unasked"
    /\ log = <<>>
    /\ DebugIdle
    /\ pc = "ext"
    /\ timeout = NoTimeout
    /\ outcome = "NONE"
    /\ exc = "none"
    /\ elapsed = 0
    /\ iterated = FALSE
    /\ shell = "running"
    /\ child = (IF work.child = "none" THEN "none" ELSE "running")
    /\ outIdx = 0 /\ errIdx = 0
    /\ pipeOut = <<>> /\ pipeErr = <<>>
    /\ dOut = "running" /\ dErr = "running"
    /\ q = <<>> /\ q_stderr = <<>>
    /\ output = <<>> /\ stderr_output = <<>>
    /\ interrupted = FALSE
    /\ interrupted_local = FALSE
    /\ pid_container = ShellPid
    /\ termPids = <<>>
    /\ termRaised = FALSE
    /\ return_value = NoValue
    /\ saved = <<>>
    /\ kbCount = 0

TerminateCall ==
    /\ pc = "ext"
    /\ Len(termPids) < MaxTermCalls
    /\ LET r == TerminateProcess(platform, shell, child)
       IN  /\ shell' = r.shell
           /\ child' = r.child
           /\ termRaised' = r.raised
           /\ exc' = IF r.raised THEN "OSError" ELSE exc
    /\ termPids' = Append(termPids, pid_container)
    /\ UNCHANGED <<outIdx, errIdx, pipeOut, pipeErr, drainVars, argVars, timeout,
                   pc, outcome, output, stderr_output, interrupted,
                   interrupted_local, pid_container, return_value, saved,
                   kbCount, elapsed, iterated, hookVars>>

TermNext ==
    \/ TerminateCall
    \/ ShellWriteOut \/ ShellWriteErr \/ ShellExit \/ ChildWrite \/ ChildExit
    \/ DrainerOut \/ DrainerErr

TermSpec == TermInit /\ [][TermNext]_vars

----------------------------------------------------------------------------
(* debug, lines 302-349, called by run_command_until_success (line 296)    *)
(* with a command, and by other callers with a user_input.  The agent's    *)
(* attempt (send_message and execute_task, lines 325-335) is an input: it  *)
(* succeeds or it does not.                                                *)

\* what ask_for_human_intervention can return
HumanAnswers == {"continue", "", "no"}

DebugInit ==
    /\ platform = "Posix"
    /\ timeoutArg = NoTimeout
    /\ cap = MAX_COMMAND_OUTPUT_LENGTH
    /\ work = Work(<<>>, <<>>, "none", 0)
    /\ force = TRUE
    /\ skip_steps = FALSE
    /\ prior = NoValue
    /\ pc = "caller"
    /\ output = <<>> /\ stderr_output = <<>>
    /\ Fresh
    /\ dargs \in [command : {"None", "given"}, user_input : {"None", "given"},
                  issue_description : {"None", "given"}]
    /\ dpc = "idle"
    /\ dsuccess = FALSE
    /\ dtries = 0
    /\ dlog = <<>>
    /\ dhuman = "none"
    /\ dret = "none"

\* lines 315-317
DebugEnter ==
    /\ dpc = "idle"
    /\ dlog' = Append(dlog, "save_branch")
    /\ dsuccess' = FALSE
    /\ dpc' = "for"
    /\ UNCHANGED <<execVars, dargs, dtries, dhuman, dret>>

\* a for loop without the test of lines 320-321
KeepTryingNoBreak(n, success) == n < MAX_COMMAND_DEBUG_TRIES

\* lines 319-321: range() has a next value and success is not set
KeepTrying(n, success) == n < MAX_COMMAND_DEBUG_TRIES /\ ~success

\* line 323
DebugLoadBranch ==
    /\ dpc = "for"
    /\ KeepTrying(dtries, dsuccess)
    /\ dtries' = dtries + 1
    /\ dlog' = Append(dlog, "load_branch")
    /\ dpc' = "attempt"
    /\ UNCHANGED <<execVars, dargs, dsuccess, dhuman, dret>>

\* lines 325-335: the plan is asked for and execute_task carries it out
DebugAttempt ==
    /\ dpc = "attempt"
    /\ \E result \in BOOLEAN :
          /\ dsuccess' = result
          /\ dlog' = Append(dlog, IF result THEN "task_ok" ELSE "task_failed")
    /\ dpc' = "for"
    /\ UNCHANGED <<execVars, dargs, dtries, dhuman, dret>>

\* the loop is left (line 319 exhausted or line 321), then line 338
DebugLoopEnd ==
    /\ dpc = "for"
    /\ ~KeepTrying(dtries, dsuccess)
    /\ dpc' = IF ~dsuccess THEN "ask" ELSE "return"
    /\ UNCHANGED <<execVars, dargs, dsuccess, dtries, dlog, dhuman, dret>>

\* lines 341-347; the question asked depends on user_input (line 342)
DebugAsk ==
    /\ dpc = "ask"
    /\ dlog' = Append(dlog, IF dargs.user_input = "None"
                            THEN "ask_help" ELSE "ask_check_again")
    /\ \E a \in HumanAnswers :
          /\ dhuman' = a
          /\ dsuccess' = IF a = "continue" THEN TRUE ELSE dsuccess
    /\ dpc' = "return"
    /\ UNCHANGED <<execVars, dargs, dtries, dret>>

\* line 349
DebugReturn ==
    /\ dpc = "return"
    /\ dret' = IF dsuccess THEN "True" ELSE "False"
    /\ dpc' = "done"
    /\ UNCHANGED <<execVars, dargs, dsuccess, dtries, dlog, dhuman>>

DebugNext ==
    \/ DebugEnter \/ DebugLoadBranch \/ DebugAttempt
    \/ DebugLoopEnd \/ DebugAsk \/ DebugReturn

DebugSpec == DebugInit /\ [][DebugNext]_vars

----------------------------------------------------------------------------
(* Properties                                                              *)

\* run_command, lines 50-58: preexec_fn=os.setsid makes the shell the leader of
\* a new process group that its children inherit; the Windows branch (lines
\* 41-48) creates no group.  Some process of that group is still running:
GroupRunning ==
    /\ platform = "Posix"
    /\ (shell = "running" \/ child = "running")

Returned == pc = "done"

\* C1: for a command that writes N lines to stdout and M lines to stderr and
\* then exits on its own, with no interruption, the accumulators hold all N and
\* all M lines, in order, once the loop has ended.
C1_AllLinesAccumulated ==
    (/\ pc \in {"build", "done"}
     /\ outcome = "COMPLETED"
     /\ work.child = "none"
     /\ kbCount = 0)
    => (/\ output = Flatten(work.out)
        /\ stderr_output = Flatten(work.err))

\* C2: whenever execute_command is past a timeout or a KeyboardInterrupt caught
\* in the polling loop, terminate_process has been called, exactly with the pid
\* of the process this invocation spawned, and no process of the group created
\* at spawn is running any more; in particular when it returns.
C2_AbortTerminatesGroup ==
    (/\ pc \in {"build", "done"}
     /\ outcome \in {"TIMED_OUT", "INTERRUPTED"})
    => (/\ termPids = <<ShellPid>>
        /\ pid_container = ShellPid
        /\ ~GroupRunning)

\* C2 witness: a timed-out run has returned after the kill took down a child
\* of the group that was still running
C2_Witness ==
    /\ Returned
    /\ outcome = "TIMED_OUT"
    /\ platform = "Posix"
    /\ shell = "killed"
    /\ child = "killed"

\* C3: when execute_command returns through the COMPLETED path, no process of
\* the process group created at spawn is still running.
C3_CompletedGroupGone ==
    (Returned /\ outcome = "COMPLETED") => ~GroupRunning

\* C4: with a timeout configured the polling loop, once entered, is always
\* left (COMPLETED, TIMED_OUT or INTERRUPTED) after finitely many steps; with
\* no timeout configured it never ends in TIMED_OUT.
C4_LoopLeavesRunning ==
    /\ [](( pc = "loop" /\ timeout # NoTimeout) => <>(pc \notin InTry))
    /\ [](timeout = NoTimeout => outcome # "TIMED_OUT")

\* C5: no exception other than a spawn failure escapes execute_command, a run
\* that timed out or was interrupted returns the text built from what was
\* accumulated, and that text was persisted exactly once.
C5_AbortsReturnNormally ==
    /\ pc = "raised" => exc = "SpawnFailure"
    /\ (Returned /\ outcome \in {"TIMED_OUT", "INTERRUPTED"})
       => (/\ return_value = BuildResult(output, stderr_output, cap)
           /\ saved = <<return_value>>)

\* the last n characters of s, all of s when it is shorter
LastChars(s, n) == SubSeq(s, Len(s) - Min(n, Len(s)) + 1, Len(s))

\* C6: for every pair of accumulated texts and every cap >= 0 the result is
\* the labeled stderr section (only when stderr is non-empty) followed by the
\* labeled stdout section, each body being exactly the last cap characters.
C6_ResultIsCappedTail ==
    Returned =>
        /\ return_value =
             (IF stderr_output # <<>>
              THEN StderrOpen \o LastChars(stderr_output, cap) \o StderrClose
              ELSE <<>>)
             \o StdoutOpen \o LastChars(output, cap) \o StdoutClose
        /\ Len(LastChars(output, cap)) <= cap
        /\ Len(LastChars(stderr_output, cap)) <= cap

\* C7: in every reachable state both accumulators are at most
\* MAX_COMMAND_OUTPUT_LENGTH characters long.
C7_AccumulatorsCapped ==
    /\ Len(output) <= MAX_COMMAND_OUTPUT_LENGTH
    /\ Len(stderr_output) <= MAX_COMMAND_OUTPUT_LENGTH

\* C8: the timeout the loop compares against is the supplied value clamped
\* into [MIN_COMMAND_RUN_TIME, MAX_COMMAND_RUN_TIME]; none when none is given.
C8_TimeoutIsClampedArg ==
    pc # "start" =>
        timeout = (IF timeoutArg = NoTimeout THEN NoTimeout
                   ELSE Min(Max(timeoutArg, MIN_COMMAND_RUN_TIME),
                            MAX_COMMAND_RUN_TIME))

\* C9: a run with timeout argument 500 of a command that stays alive for
\* 5000 ms, left alone by the user, ends TIMED_OUT with the shell killed.
C9_ShortTimeoutAborts ==
    (/\ timeoutArg = 500
     /\ work.lifetime = 5000
     /\ kbCount = 0
     /\ pc \in {"build", "done"})
    => (outcome = "TIMED_OUT" /\ shell = "killed")

\* the target of terminate_process is already gone: no live member of the
\* group (POSIX), no live process of that pid (Windows)
TargetGone ==
    IF platform = "Windows" THEN shell # "running"
    ELSE shell # "running" /\ child # "running"

\* C10: a call of terminate_process on a pid whose process (group) is already
\* gone, and any second call on the same pid, returns without raising and
\* leaves every process as it was.
C10_TerminateIdempotent ==
    [][(/\ Len(termPids') = Len(termPids) + 1
        /\ (TargetGone \/ Len(termPids) >= 1))
       => (/\ ~termRaised'
           /\ exc' = exc
           /\ shell' = shell
           /\ child' = child)]_vars

\* C10 witness: terminate_process has been called twice on the pid of a
\* process group that had exited on its own
C10_Witness ==
    /\ pc = "ext"
    /\ termPids = <<ShellPid, ShellPid>>
    /\ platform = "Posix"
    /\ shell = "exited"
    /\ child = "none"
    /\ ~termRaised

\* C11: once execute_command has taken the timeout or the interruption path
\* (its handler has run), the flag that the two enqueue_output threads read is
\* true.
C11_DrainersSeeInterruption ==
    (/\ pc \in {"build", "done"}
     /\ outcome \in {"TIMED_OUT", "INTERRUPTED"})
    => interrupted = TRUE

\* the event e is in the history s
Occurs(e, s) == \E i \in 1..Len(s) : s[i] = e

\* every occurrence of b in s has an occurrence of a before it
Precedes(a, b, s) ==
    \A j \in 1..Len(s) : s[j] = b => \E i \in 1..(j - 1) : s[i] = a

\* run_command has been called
SpawnAttempted == Occurs("spawn", log) \/ Occurs("spawn_failed", log)

\* execute_command is over, by return or by exception
Ended == pc \in {"done", "raised"}

\* C12: the history lookup comes before any spawn; a stored run with
\* skip_steps set is returned without spawn, terminate_process or
\* save_command_run; every other execution that spawns successfully calls
\* save_command_run exactly once, after the loop, with the returned text.
C12_HistoryHookOrdering ==
    /\ Precedes("lookup", "spawn", log)
    /\ Precedes("lookup", "spawn_failed", log)
    /\ (Ended /\ Replays(prior, skip_steps))
       => (/\ Returned
           /\ return_value = prior
           /\ ~SpawnAttempted
           /\ shell = "none"
           /\ termPids = <<>>
           /\ saved = <<>>)
    /\ (Ended /\ Occurs("spawn", log))
       => (/\ saved = <<return_value>>
           /\ return_value # NoValue
           /\ log[Len(log)] = "save")
    /\ Len(saved) <= 1

\* C13: without force a process is spawned only after the prompt has returned
\* an acknowledgment (ENTER); with force the prompt is never issued.
C13_ConfirmationGatesSpawn ==
    /\ (~force /\ SpawnAttempted)
       => (/\ Precedes("prompt", "spawn", log)
           /\ Precedes("prompt", "spawn_failed", log)
           /\ answer = "")
    /\ force => (answer = "unasked" /\ ~Occurs("prompt", log))

\* C14: when run_command fails to spawn, the failure leaves execute_command
\* as an exception, after a single spawn attempt, with no drainer thread
\* started, no terminate_process call and no save_command_run call.
C14_SpawnFailurePropagates ==
    Occurs("spawn_failed", log)
    => (/\ pc = "raised"
        /\ exc = "SpawnFailure"
        /\ log[Len(log)] = "spawn_failed"
        /\ ~Occurs("spawn", log)
        /\ shell = "none"
        /\ pid_container = NoPid
        /\ dOut = "none" /\ dErr = "none"
        /\ termPids = <<>>
        /\ saved = <<>>
        /\ return_value = NoValue)

\* C14 witness: the spawn has failed and the exception has left
\* execute_command, after a prompt that the user acknowledged
C14_Witness ==
    /\ pc = "raised"
    /\ exc = "SpawnFailure"
    /\ Occurs("spawn_failed", log)
    /\ ~force
    /\ answer = ""

\* C15: an iteration that finds the process exited leaves the loop towards
\* COMPLETED without terminate_process, also when the elapsed time is past the
\* timeout; the loop is left towards TIMED_OUT only by an iteration that found
\* the process still running and the timeout exceeded.
C15_ExitBeforeTimeout ==
    /\ [][(pc = "loop" /\ pc' # "loop" /\ kbCount' = kbCount)
          => IF Polled(shell)
             THEN /\ pc' = "drain"
                  /\ outcome' = outcome
                  /\ termPids' = termPids
             ELSE /\ pc' = "handler"
                  /\ outcome' = "TIMED_OUT"
                  /\ TimedOut(timeout, elapsed)]_vars
    /\ [][(pc = "drain" /\ kbCount' = kbCount)
          => /\ pc' \in {"drain", "build"}
             /\ termPids' = termPids
             /\ pc' = "build" => outcome' = "COMPLETED"]_vars

\* C15 witness: a run has returned COMPLETED, without a call of
\* terminate_process, although the elapsed time was past the timeout when the
\* exit was observed
C15_Witness ==
    /\ Returned
    /\ outcome = "COMPLETED"
    /\ TimedOut(timeout, elapsed)
    /\ termPids = <<>>
    /\ shell = "exited"

\* C16: an iteration that stays in the loop takes from each queue its oldest
\* line if it has one and nothing if it is empty, appending what it took; no
\* step made while the loop is running removes more than one line from a
\* queue; and the iteration is never blocked.
C16_OnePopPerQueue ==
    /\ [][(LoopIteration /\ pc' = "loop")
          => /\ IF q = <<>>
                THEN q' = <<>> /\ output' = output
                ELSE q' = Tail(q) /\ output' = output \o Head(q)
             /\ IF q_stderr = <<>>
                THEN q_stderr' = <<>> /\ stderr_output' = stderr_output
                ELSE /\ q_stderr' = Tail(q_stderr)
                     /\ stderr_output' = stderr_output \o Head(q_stderr)]_vars
    /\ [][(pc = "loop" /\ pc' = "loop")
          => /\ Len(q') >= Len(q) - 1
             /\ Len(q_stderr') >= Len(q_stderr) - 1]_vars
    /\ [](pc = "loop" => ENABLED LoopIteration)

\* C16 witness: an iteration has taken one of two queued stdout lines and left
\* the other, the stderr queue being empty
C16_Witness ==
    /\ pc = "loop"
    /\ output # <<>>
    /\ q # <<>>
    /\ q_stderr = <<>>
    /\ stderr_output = <<>>

\* the lines appended so far: the pieces of the accumulated text that end at a
\* newline and start after the previous one
LinesOf(t) ==
    { SubSeq(t, p[1], p[2]) :
        p \in { r \in (1..Len(t)) \X (1..Len(t)) :
                  /\ r[1] <= r[2]
                  /\ t[r[2]] = NL
                  /\ (r[1] = 1 \/ t[r[1] - 1] = NL)
                  /\ \A k \in r[1]..(r[2] - 1) : t[k] # NL } }

\* C17: in the batch drained after the exit a line is left out exactly when an
\* identical line has been appended before; a line taken while the loop is
\* running is always appended.
C17_OnlyTrueDuplicatesSuppressed ==
    /\ [][(pc = "drain" /\ pc' = "drain" /\ q # <<>> /\ q' = Tail(q))
          => output' = (IF Head(q) \in LinesOf(output)
                        THEN output
                        ELSE output \o Head(q))]_vars
    /\ [][(LoopIteration /\ pc' = "loop" /\ q # <<>>)
          => output' = output \o Head(q)]_vars

\* C18: a drainer thread that has ended, on whatever path, has closed its
\* stream handle; and a drainer puts on its queue the line it has just read,
\* behind the lines it put before.
C18_DrainerClosesStream ==
    /\ [](dOut \notin {"none", "running"} => dOut = "closed")
    /\ [](dErr \notin {"none", "running"} => dErr = "closed")
    /\ [][Len(q') > Len(q) => q' = Append(q, Head(pipeOut))]_vars
    /\ [][Len(q_stderr') > Len(q_stderr)
          => q_stderr' = Append(q_stderr, Head(pipeErr))]_vars

\* a KeyboardInterrupt has been delivered between the spawn and the return
InterruptedRun == kbCount >= 1

\* C19: an execution that received a KeyboardInterrupt after the spawn ends
\* by returning a result, after a call of terminate_process on the spawned
\* pid, with no process of it left running; and an interrupt delivered after
\* the exit was observed finds no stdout line left in the queue to lose.
C19_InterruptTerminatesAndReturns ==
    /\ [](pc = "raised" => exc # "KeyboardInterrupt")
    /\ []((InterruptedRun /\ Ended)
          => (/\ Returned
              /\ return_value # NoValue
              /\ termPids = <<ShellPid>>
              /\ shell # "running"))
    /\ [][(pc = "drain" /\ kbCount' = kbCount + 1) => q = <<>>]_vars

\* the attempts debug() has made so far, and the questions it has asked
Attempts == {i \in 1..Len(dlog) : dlog[i] \in {"task_ok", "task_failed"}}
Asked == Occurs("ask_help", dlog) \/ Occurs("ask_check_again", dlog)

\* C20: debug makes at most MAX_COMMAND_DEBUG_TRIES attempts, each directly
\* after a reload of the branch saved at entry; nothing is attempted after a
\* successful attempt; on return the human has been asked exactly when no
\* attempt succeeded, and the value returned is True exactly when an attempt
\* succeeded or the human answered 'continue'.
C20_DebugRetryLoop ==
    /\ Cardinality(Attempts) <= MAX_COMMAND_DEBUG_TRIES
    /\ dlog # <<>> => dlog[1] = "save_branch"
    /\ \A i \in 2..Len(dlog) : dlog[i] # "save_branch"
    /\ \A i \in Attempts : i > 1 /\ dlog[i - 1] = "load_branch"
    /\ \A i \in 1..Len(dlog) : \A j \in (i + 1)..Len(dlog) :
          dlog[i] = "task_ok" => dlog[j] \notin {"load_branch", "task_ok",
                                                 "task_failed"}
    /\ Asked => ~Occurs("task_ok", dlog)
    /\ dpc = "done"
       => (/\ Asked <=> ~Occurs("task_ok", dlog)
           /\ dret = "True" <=> (Occurs("task_ok", dlog) \/ dhuman = "continue")
           /\ dret \in {"True", "False"})

\* C20 witness: debug has returned True after MAX_COMMAND_DEBUG_TRIES failed
\* attempts, the human having answered 'continue'
C20_Witness ==
    /\ dpc = "done"
    /\ Cardinality(Attempts) = MAX_COMMAND_DEBUG_TRIES
    /\ ~Occurs("task_ok", dlog)
    /\ Asked
    /\ dhuman = "continue"
    /\ dret = "True"

====
